---------------------------- MODULE Spec2Model ----------------------------
(***************************************************************************)
(* A model of the marine-risk-mapping ingestion pipeline:                  *)
(*   - pipeline/ingestion/download_ais.py  (unit enumerator, resumable     *)
(*     per-day fetch, the run over all days)       -> specification Spec   *)
(*   - the same runs repeated without end, none stopped on its way, under  *)
(*     a fair network                              -> specification        *)
(*     SpecConverge                                                        *)
(*   - generate_dates as a step-by-step loop       -> specification        *)
(*     SpecDates                                                           *)
(*   - pipeline/database/load_data.py (table-level gating and the loaders) *)
(*                                                 -> specification        *)
(*     SpecLoad                                                            *)
(*   - pipeline/ingestion/download_mpa.py (the archive normalizer)         *)
(*                                                 -> specification        *)
(*     SpecMpa                                                             *)
(*   - one field of one record through its loader in load_data.py          *)
(*                                                 -> specification        *)
(*     SpecNull                                                            *)
(* Each specification moves its own variables and leaves the others fixed. *)
(***************************************************************************)
EXTENDS Integers, Sequences, FiniteSets, TLC

(***************************************************************************)
(* Bounds of the model.                                                    *)
(***************************************************************************)
\* Days of the enumerated sequence that a modelled run covers (the program
\* runs START_DATE .. 2024-12-31, 366 days).
NumUnits == 3
\* Chunks of CHUNK_SIZE bytes that make up one complete remote file.
RemoteChunks == 2
\* Runs of download_all_ais_data in one behaviour.
MaxRuns == 2
\* Longest interval (end - start, in days) generate_dates is tried on.
MaxSpan == 5
\* Rows in the MPA source file and in the cetacean source file.
BatchRows == 3
\* Rows execute_values puts into one INSERT statement (psycopg2's page_size,
\* 100 by default, scaled down).
PageSize == 2
\* AIS parquet files that can be in data/raw/ais, and the most rows one
\* of them has.
NumAisFiles == 3
AisFileRows == 2
\* Runs of load_all_data in one behaviour.
MaxLoadRuns == 2
\* Chunks that make up the complete MPA archive.
ZipChunks == 2
\* Runs of download_mpa_data in one behaviour.
MaxMpaRuns == 2
\* Most features in the geodatabase of the archive.
MaxFeatures == 2

(***************************************************************************)
(* Calendar dates: datetime.date as <<year, month, day>>.                  *)
(***************************************************************************)
IsLeap(y) == (y % 4 = 0) /\ ((y % 100 # 0) \/ (y % 400 = 0))

DaysInMonth(y, m) ==
    IF m = 2 THEN (IF IsLeap(y) THEN 29 ELSE 28)
    ELSE IF m \in {4, 6, 9, 11} THEN 30 ELSE 31

\* current <= end on dates: the order of (year, month, day).
DateLE(a, b) ==
    \/ a[1] < b[1]
    \/ a[1] = b[1] /\ a[2] < b[2]
    \/ a[1] = b[1] /\ a[2] = b[2] /\ a[3] <= b[3]

\* date.max: the last day a datetime.date can hold.
DateMax == <<9999, 12, 31>>

\* What an operation on dates yields when it raises OverflowError ("date
\* value out of range") instead of returning a date.
OverflowError == <<"OverflowError">>

\* current += timedelta(days=1): the next day, and OverflowError from
\* date.max, which has none.
AddDay(dt) ==
    IF dt = DateMax THEN OverflowError
    ELSE IF dt[3] < DaysInMonth(dt[1], dt[2]) THEN <<dt[1], dt[2], dt[3] + 1>>
    ELSE IF dt[2] < 12 THEN <<dt[1], dt[2] + 1, 1>> ELSE <<dt[1] + 1, 1, 1>>

\* The loop of generate_dates from "current" on; an error raised in the
\* loop leaves the function in place of the list.
RECURSIVE GenFrom(_, _, _)
GenFrom(current, end, acc) ==
    IF DateLE(current, end)
    THEN LET next == AddDay(current)
         IN  IF next = OverflowError THEN OverflowError
             ELSE GenFrom(next, end, Append(acc, current))
    ELSE acc

generate_dates(start, end) == GenFrom(start, end, <<>>)

START_DATE == <<2024, 1, 1>>

RECURSIVE AddDays(_, _)
AddDays(dt, n) == IF n = 0 THEN dt ELSE AddDays(AddDay(dt), n - 1)

\* The last day of the modelled run: the program's END_DATE cut to NumUnits days.
END_DATE == AddDays(START_DATE, NumUnits - 1)

(***************************************************************************)
(* The proleptic Gregorian ordinal of a date (date.toordinal), the measure *)
(* in which the properties state (end - start).days.                       *)
(***************************************************************************)
DaysBeforeYear(y) ==
    (y - 1) * 365 + ((y - 1) \div 4) - ((y - 1) \div 100) + ((y - 1) \div 400)

RECURSIVE DaysBeforeMonth(_, _)
DaysBeforeMonth(y, m) ==
    IF m = 1 THEN 0 ELSE DaysBeforeMonth(y, m - 1) + DaysInMonth(y, m - 1)

Ordinal(dt) == DaysBeforeYear(dt[1]) + DaysBeforeMonth(dt[1], dt[2]) + dt[3]

\* The years dates are taken from: those around the program's range, and
\* the last year there is.
Years == (2023 .. 2025) \cup {DateMax[1]}

AllDates ==
    {<<y, m, d>> : y \in Years, m \in 1 .. 12, d \in 1 .. 31} \
    {dt \in {<<y, m, d>> : y \in Years, m \in 1 .. 12, d \in 29 .. 31} :
        dt[3] > DaysInMonth(dt[1], dt[2])}

DateAt(ord) == CHOOSE dt \in AllDates : Ordinal(dt) = ord

(***************************************************************************)
(* The local directory data/raw/ais: one file per unit.                    *)
(***************************************************************************)
\* f"ais-{file_date.isoformat()}.parquet"
Filename(file_date) ==
    <<"ais-", file_date[1], "-", file_date[2], "-", file_date[3], ".parquet">>

UnitDates == {DateAt(Ordinal(START_DATE) + k) : k \in 0 .. NumUnits - 1}

Paths == {Filename(dt) : dt \in UnitDates}

NoFile == [exists |-> FALSE, size |-> 0]

\* A skip-check that also asks for a non-empty file.
Exists_NonEmpty(fs, path) == fs[path].exists /\ fs[path].size > 0

\* A skip-check that never finds the file.
Exists_Never(fs, path) == FALSE

\* output_path.exists()
Exists(fs, path) == fs[path].exists

\* open(output_path, "wb"): the file exists and is empty.
OpenWb(fs, path) == [fs EXCEPT ![path] = [exists |-> TRUE, size |-> 0]]

\* f.write(chunk)
WriteChunkTo(fs, path) == [fs EXCEPT ![path].size = @ + 1]

\* A handler that leaves the partial file in place.
RemovePartial_Keep(fs, path) == fs

\* if output_path.exists(): output_path.unlink()
RemovePartial(fs, path) ==
    IF Exists(fs, path) THEN [fs EXCEPT ![path] = NoFile] ELSE fs

\* A caller that counts every False result as skipped.
Account_AllSkipped(result, fs, path) ==
    IF result THEN [downloaded |-> 1, skipped |-> 0, failed |-> 0]
    ELSE [downloaded |-> 0, skipped |-> 1, failed |-> 0]

\* A caller that counts every False result as failed.
Account_AllFailed(result, fs, path) ==
    IF result THEN [downloaded |-> 1, skipped |-> 0, failed |-> 0]
    ELSE [downloaded |-> 0, skipped |-> 0, failed |-> 1]

\* The caller's accounting of one result of download_file: what is added to
\* the three counters.
Account(result, fs, path) ==
    IF result THEN [downloaded |-> 1, skipped |-> 0, failed |-> 0]
    ELSE IF Exists(fs, path)
         THEN [downloaded |-> 0, skipped |-> 1, failed |-> 0]
         ELSE [downloaded |-> 0, skipped |-> 0, failed |-> 1]

\* A failure handler that lets the error out of the loop.
AfterFailure_Raise == "crashed"

\* Where the run is after download_file returned False: back in the loop.
AfterFailure == "loop"

VARIABLES
    files,       \* path -> [exists, size]: the directory data/raw/ais
    pc,          \* idle | loop | request | stream | sleep | done | crashed
    i,           \* the loop's index into dates (1-based)
    dates,       \* the list generate_dates returned to this run
    downloaded,  \* the run's three counters
    skipped,
    failed,
    netUp,       \* whether the network is reachable during this run
    runs,        \* runs started so far
    \* history of the current run
    attempts,    \* dates download_file was called with, in call order
    requests,    \* dates an HTTP request was issued for
    truth,       \* date -> what really happened in download_file
    last,        \* the last return of download_file
    sinceReq,    \* none | request | paused: what followed the last request
    snapshot,    \* files when the run started
    prev         \* how the run before this one ended (pc at the start)

fetchVars ==
    <<files, pc, i, dates, downloaded, skipped, failed, netUp, runs,
      attempts, requests, truth, last, sinceReq, snapshot, prev>>

\* generate_dates
VARIABLES
    gd_start,    \* the arguments
    gd_end,
    gd_current,  \* the local "current"
    gd_dates,    \* the local "dates"
    gd_pc        \* idle | loop | returned | raised

datesVars == <<gd_start, gd_end, gd_current, gd_dates, gd_pc>>

\* load_data.py
VARIABLES
    rows,         \* table -> row count of the target relation
    staging,      \* the session's TEMP TABLE ais_staging: [exists, rows]
    src,          \* [mpa, cet: whether the file exists; ais: file -> its rows]
    lpc,          \* idle | check | batch | ais_next | ais_copy | ais_insert
                  \* | ais_drop | closed
    lt,           \* index into TABLES of the table the loop is at
    lruns,        \* runs of load_all_data started so far
    pending,      \* records of the batch that execute_values has yet to send
    aidx,         \* index of the AIS file being loaded (1-based)
    total_loaded, \* load_ais_data's running total
    lresult,      \* none | running | ok | failed: how the run ended
    parquet_files,\* load_ais_data's sorted list of files
    report,       \* the final row counts the run logged (-1: none)
    \* history of the current run
    invoked,      \* tables whose loader was called
    seen,         \* table -> the count the gate read (-1: not read)
    rowsAtStart,  \* rows when the run started
    lfailpc,      \* where the run was when it failed (none: it has not)
    totals,       \* the running totals load_ais_data logged, in order
    loadedFiles   \* the AIS files whose rows were inserted, in order

loadVars ==
    <<rows, staging, src, lpc, lt, lruns, pending, aidx, total_loaded,
      lresult, parquet_files, report, invoked, seen, rowsAtStart, lfailpc,
      totals, loadedFiles>>

\* The archive normalizer (download_mpa.py).
VARIABLES
    output_file,  \* OUTPUT_FILE: [exists, complete, features]
    zip_file,     \* the archive file: [exists, size in chunks, gdb]
    tmpdirs,      \* the runs whose temporary directory exists
    mpc,          \* idle | gate | request | stream | extract | scan | filter
                  \* | save | saving | unlink | ended
    mruns,        \* runs started
    mresult,      \* none | running | skipped | ok | failed | interrupted
    merr,         \* what the run failed with
    mrequests,    \* requests this run has sent
    mchunks,      \* chunks this run has written
    gdf,          \* the frame read from the geodatabase
    gdf_crs,      \* its coordinate reference system
    gdf_us,       \* the filtered frame
    zipAtStart,   \* the archive file when the run started
    outAtStart,   \* the snapshot when the run started
    zipSeen       \* whether the archive file has been on disk in this run

mpaVars ==
    <<output_file, zip_file, tmpdirs, mpc, mruns, mresult, merr, mrequests,
      mchunks, gdf, gdf_crs, gdf_us, zipAtStart, outAtStart, zipSeen>>

\* One field of one record on its way into a table (load_data.py).
VARIABLES
    n_pc,         \* idle | source | built | sent | stored
    n_field,      \* the column
    n_src,        \* the value in the source frame
    n_val         \* the value at the present stage

nullVars == <<n_pc, n_field, n_src, n_val>>

\* A step of the fetch coordinator leaves the rest alone.
FetchOnly == UNCHANGED <<datesVars, loadVars, mpaVars, nullVars>>

NoReturn == [unit |-> <<0, 0, 0>>, branch |-> "none", result |-> FALSE, partial |-> 0]

FetchInit ==
    /\ files = [p \in Paths |-> NoFile]
    /\ pc = "idle"
    /\ i = 1
    /\ dates = <<>>
    /\ downloaded = 0
    /\ skipped = 0
    /\ failed = 0
    /\ netUp = TRUE
    /\ runs = 0
    /\ attempts = <<>>
    /\ requests = {}
    /\ truth = [dt \in UnitDates |-> "none"]
    /\ last = NoReturn
    /\ sinceReq = "none"
    /\ snapshot = [p \in Paths |-> NoFile]
    /\ prev = "idle"

CurDate == dates[i]
CurPath == Filename(CurDate)
InLoop == pc = "loop" /\ i <= Len(dates)

\* The counters after the caller accounted for `result`.
Counted(result, fs) ==
    LET a == Account(result, fs, CurPath)
    IN  /\ downloaded' = downloaded + a.downloaded
        /\ skipped' = skipped + a.skipped
        /\ failed' = failed + a.failed

\* download_all_ais_data up to its loop.
StartRun ==
    /\ pc \in {"idle", "done", "crashed"}
    /\ runs < MaxRuns
    /\ \E net \in BOOLEAN : netUp' = net
    /\ runs' = runs + 1
    /\ prev' = pc
    /\ dates' = generate_dates(START_DATE, END_DATE)
    /\ downloaded' = 0
    /\ skipped' = 0
    /\ failed' = 0
    /\ i' = 1
    /\ pc' = "loop"
    /\ attempts' = <<>>
    /\ requests' = {}
    /\ truth' = [dt \in UnitDates |-> "none"]
    /\ last' = NoReturn
    /\ sinceReq' = "none"
    /\ snapshot' = files
    /\ UNCHANGED files
    /\ FetchOnly

\* download_file: the file is there; return False. The caller finds the file
\* and counts the unit as skipped.
Skip ==
    /\ InLoop
    /\ Exists(files, CurPath)
    /\ attempts' = Append(attempts, CurDate)
    /\ truth' = [truth EXCEPT ![CurDate] = "skipped"]
    /\ last' = [unit |-> CurDate, branch |-> "skip", result |-> FALSE,
                partial |-> files[CurPath].size]
    /\ Counted(FALSE, files)
    /\ i' = i + 1
    /\ UNCHANGED <<files, pc, dates, netUp, runs, requests, sinceReq, snapshot, prev>>
    /\ FetchOnly

\* download_file: the file is not there; httpx.stream sends the request
\* and waits for the response.
SendRequest ==
    /\ InLoop
    /\ ~Exists(files, CurPath)
    /\ attempts' = Append(attempts, CurDate)
    /\ requests' = requests \cup {CurDate}
    /\ sinceReq' = "request"
    /\ pc' = "request"
    /\ UNCHANGED <<files, i, dates, downloaded, skipped, failed, netUp, runs,
                   truth, last, snapshot, prev>>
    /\ FetchOnly

\* The request is answered with a non-success status; raise_for_status
\* raises HTTPStatusError before the file is opened.
HttpError ==
    /\ pc = "request"
    /\ netUp
    /\ truth' = [truth EXCEPT ![CurDate] = "failed"]
    /\ last' = [unit |-> CurDate, branch |-> "HTTPStatusError", result |-> FALSE,
                partial |-> 0]
    /\ Counted(FALSE, files)
    /\ i' = i + 1
    /\ pc' = AfterFailure
    /\ UNCHANGED <<files, dates, netUp, runs, attempts, requests, sinceReq,
                   snapshot, prev>>
    /\ FetchOnly

\* The request fails before any response (connection error, timeout):
\* RequestError, nothing was written.
ConnectError ==
    /\ pc = "request"
    /\ truth' = [truth EXCEPT ![CurDate] = "failed"]
    /\ last' = [unit |-> CurDate, branch |-> "RequestError", result |-> FALSE,
                partial |-> 0]
    /\ files' = RemovePartial(files, CurPath)
    /\ Counted(FALSE, files')
    /\ i' = i + 1
    /\ pc' = AfterFailure
    /\ UNCHANGED <<dates, netUp, runs, attempts, requests, sinceReq, snapshot,
                   prev>>
    /\ FetchOnly

\* The response is a success and the destination is opened for writing.
BeginStream ==
    /\ pc = "request"
    /\ netUp
    /\ files' = OpenWb(files, CurPath)
    /\ pc' = "stream"
    /\ UNCHANGED <<i, dates, downloaded, skipped, failed, netUp, runs,
                   attempts, requests, truth, last, sinceReq, snapshot, prev>>
    /\ FetchOnly

\* One chunk of the response is written.
WriteChunk ==
    /\ pc = "stream"
    /\ files[CurPath].size < RemoteChunks
    /\ files' = WriteChunkTo(files, CurPath)
    /\ UNCHANGED <<pc, i, dates, downloaded, skipped, failed, netUp, runs,
                   attempts, requests, truth, last, sinceReq, snapshot, prev>>
    /\ FetchOnly

\* iter_bytes raises RequestError, before a chunk, between two chunks or
\* after the last one (a timeout, a connection closed before the body was
\* complete): the handler removes the file and returns False.
StreamError ==
    /\ pc = "stream"
    /\ truth' = [truth EXCEPT ![CurDate] = "failed"]
    /\ last' = [unit |-> CurDate, branch |-> "RequestError", result |-> FALSE,
                partial |-> files[CurPath].size]
    /\ files' = RemovePartial(files, CurPath)
    /\ Counted(FALSE, files')
    /\ i' = i + 1
    /\ pc' = AfterFailure
    /\ UNCHANGED <<dates, netUp, runs, attempts, requests, sinceReq, snapshot, prev>>
    /\ FetchOnly

\* The stream ends: download_file returns True and the caller counts a
\* download; the pause follows.
StreamDone ==
    /\ pc = "stream"
    /\ files[CurPath].size = RemoteChunks
    /\ truth' = [truth EXCEPT ![CurDate] = "downloaded"]
    /\ last' = [unit |-> CurDate, branch |-> "ok", result |-> TRUE,
                partial |-> files[CurPath].size]
    /\ Counted(TRUE, files)
    /\ pc' = "sleep"
    /\ UNCHANGED <<files, i, dates, netUp, runs, attempts, requests, sinceReq,
                   snapshot, prev>>
    /\ FetchOnly

\* time.sleep(DELAY_BETWEEN_DOWNLOADS), then the next unit.
Sleep ==
    /\ pc = "sleep"
    /\ sinceReq' = "paused"
    /\ i' = i + 1
    /\ pc' = "loop"
    /\ UNCHANGED <<files, dates, downloaded, skipped, failed, netUp, runs,
                   attempts, requests, truth, last, snapshot, prev>>
    /\ FetchOnly

\* The sequence is exhausted: the totals are logged.
Finish ==
    /\ pc = "loop"
    /\ i > Len(dates)
    /\ pc' = "done"
    /\ UNCHANGED <<files, i, dates, downloaded, skipped, failed, netUp, runs,
                   attempts, requests, truth, last, sinceReq, snapshot, prev>>
    /\ FetchOnly

\* The run stops where it is: the process is killed, or an error that is
\* neither HTTPStatusError nor RequestError (a local write error) leaves
\* download_file and the run. Nothing is cleaned up.
Interrupt ==
    /\ pc \in {"loop", "request", "stream", "sleep"}
    /\ pc' = "crashed"
    /\ UNCHANGED <<files, i, dates, downloaded, skipped, failed, netUp, runs,
                   attempts, requests, truth, last, sinceReq, snapshot, prev>>
    /\ FetchOnly

\* download_all_ais_data is run once more, after the runs that are
\* counted: the same start, the count of runs stays at its bound.
Rerun ==
    /\ pc \in {"idle", "done", "crashed"}
    /\ runs = MaxRuns
    /\ \E net \in BOOLEAN : netUp' = net
    /\ prev' = pc
    /\ dates' = generate_dates(START_DATE, END_DATE)
    /\ downloaded' = 0
    /\ skipped' = 0
    /\ failed' = 0
    /\ i' = 1
    /\ pc' = "loop"
    /\ attempts' = <<>>
    /\ requests' = {}
    /\ truth' = [dt \in UnitDates |-> "none"]
    /\ last' = NoReturn
    /\ sinceReq' = "none"
    /\ snapshot' = files
    /\ UNCHANGED <<files, runs>>
    /\ FetchOnly

FetchNext ==
    \/ StartRun
    \/ Skip
    \/ SendRequest
    \/ HttpError
    \/ ConnectError
    \/ BeginStream
    \/ WriteChunk
    \/ StreamError
    \/ StreamDone
    \/ Sleep
    \/ Finish
    \/ Interrupt

(***************************************************************************)
(* generate_dates, one loop iteration per step.                            *)
(***************************************************************************)
DatesIdle ==
    /\ gd_start = START_DATE
    /\ gd_end = START_DATE
    /\ gd_current = START_DATE
    /\ gd_dates = <<>>
    /\ gd_pc = "idle"

\* Interval starts next to a year end, a leap day, a non-leap February, a
\* 30-day month end and the last day there is.
StartDates ==
    {<<2023, 12, 30>>, <<2024, 2, 27>>, <<2023, 2, 26>>, <<2024, 12, 29>>,
     <<2024, 4, 28>>, START_DATE, <<9999, 12, 29>>, DateMax}

EndDatesFor(start) ==
    {dt \in AllDates : Ordinal(dt) - Ordinal(start) \in (0 - 2) .. MaxSpan}

\* generate_dates(start, end) is called: dates = [], current = start.
DatesInit ==
    /\ gd_start \in StartDates
    /\ gd_end \in EndDatesFor(gd_start)
    /\ gd_current = gd_start
    /\ gd_dates = <<>>
    /\ gd_pc = "loop"

\* while current <= end: dates.append(current); current += timedelta(days=1)
GenAppend ==
    /\ gd_pc = "loop"
    /\ DateLE(gd_current, gd_end)
    /\ AddDay(gd_current) # OverflowError
    /\ gd_dates' = Append(gd_dates, gd_current)
    /\ gd_current' = AddDay(gd_current)
    /\ UNCHANGED <<gd_start, gd_end, gd_pc>>
    /\ UNCHANGED <<fetchVars, loadVars, mpaVars, nullVars>>

\* The loop body at date.max: the date is appended, the increment raises
\* OverflowError and the call ends without a list.
GenOverflow ==
    /\ gd_pc = "loop"
    /\ DateLE(gd_current, gd_end)
    /\ AddDay(gd_current) = OverflowError
    /\ gd_dates' = Append(gd_dates, gd_current)
    /\ gd_pc' = "raised"
    /\ UNCHANGED <<gd_start, gd_end, gd_current>>
    /\ UNCHANGED <<fetchVars, loadVars, mpaVars, nullVars>>

\* return dates
GenReturn ==
    /\ gd_pc = "loop"
    /\ ~DateLE(gd_current, gd_end)
    /\ gd_pc' = "returned"
    /\ UNCHANGED <<gd_start, gd_end, gd_current, gd_dates>>
    /\ UNCHANGED <<fetchVars, loadVars, mpaVars, nullVars>>

DatesNext ==
    \/ GenAppend
    \/ GenOverflow
    \/ GenReturn

(***************************************************************************)
(* load_data.py: load_all_data and the three loaders.  The connection is   *)
(* in autocommit mode: every statement that succeeds is committed.         *)
(***************************************************************************)
\* The gate's list, in its declared order.
TABLES == <<"marine_protected_areas", "cetacean_sightings", "ais_positions">>

Tables == {TABLES[k] : k \in 1 .. Len(TABLES)}

\* The list of the final row counts, in its declared order.
FINAL_TABLES == <<"ais_positions", "cetacean_sightings", "marine_protected_areas">>

\* A gate that never skips.
AlreadyLoaded_Never(count) == FALSE

\* A gate that skips only a table that holds a whole batch.
AlreadyLoaded_IfComplete(count) == count >= BatchRows

\* if count > 0: ... continue
AlreadyLoaded(count) == count > 0

\* MPA_FILE.exists(), CETACEAN_FILE.exists(), and "parquet_files" non-empty.
SourcePresent(s, table) ==
    CASE table = "marine_protected_areas" -> s.mpa
      [] table = "cetacean_sightings" -> s.cet
      [] table = "ais_positions" -> DOMAIN s.ais # {}

\* The AIS files data/raw/ais can hold: file k stands for the k-th name in
\* path order (ais-2024-01-0k.parquet).
AisFileIds == 1 .. NumAisFiles

\* What AIS_DIR.glob("*.parquet") can find: some of the files, each with
\* its number of rows.
AisDirs == UNION {[S -> 1 .. AisFileRows] : S \in SUBSET AisFileIds}

\* The file list left in directory order, here the reverse of path order.
RECURSIVE SortedFiles_Unsorted(_)
SortedFiles_Unsorted(S) ==
    IF S = {} THEN <<>>
    ELSE LET x == CHOOSE y \in S : \A z \in S : z <= y
         IN  <<x>> \o SortedFiles_Unsorted(S \ {x})

\* sorted(AIS_DIR.glob("*.parquet"))
RECURSIVE SortedFiles(_)
SortedFiles(S) ==
    IF S = {} THEN <<>>
    ELSE LET x == CHOOSE y \in S : \A z \in S : y <= z
         IN  <<x>> \o SortedFiles(S \ {x})

\* A session whose staging table is an ordinary table: it stays.
SessionEnd_Keep(st) == st

\* cur.close(); conn.close(): the session ends and its TEMP TABLE with it.
SessionEnd(st) == [exists |-> FALSE, rows |-> 0]

\* A connection without autocommit: the error undoes what the run did.
RowsAfterError_Rollback(r, atStart) == atStart

\* conn.autocommit = True: what was committed before the error stays.
RowsAfterError(r, atStart) == r

\* A loader that raises when its source is missing.
AfterMissingSource_Raise == "closed"

\* Where the run is after a loader found its source missing, warned and
\* returned: back in the loop.
AfterMissingSource == "check"

\* A convert-insert that stops one row short.
InsertedFromStaging_Short(st) == st.rows - 1

\* INSERT INTO ais_positions ... SELECT ... FROM ais_staging: every row of
\* the staging table, in one statement.
InsertedFromStaging(st) == st.rows

\* A handler that swallows the loader's error and goes on with the loop.
AfterLoaderError_Continue == "check"

\* Where the run is after a loader raised: out of the loop, in finally.
AfterLoaderError == "closed"

NoStaging == [exists |-> FALSE, rows |-> 0]

Min(a, b) == IF a <= b THEN a ELSE b

\* A step of the loader leaves the rest alone.
LoadOnly == UNCHANGED <<fetchVars, datesVars, mpaVars, nullVars>>

LoadIdle ==
    /\ rows = [t \in Tables |-> 0]
    /\ staging = NoStaging
    /\ src = [mpa |-> FALSE, cet |-> FALSE, ais |-> <<>>]
    /\ lpc = "idle"
    /\ lt = 1
    /\ lruns = 0
    /\ pending = 0
    /\ aidx = 1
    /\ total_loaded = 0
    /\ lresult = "none"
    /\ report = [t \in Tables |-> 0 - 1]
    /\ invoked = {}
    /\ seen = [t \in Tables |-> 0 - 1]
    /\ rowsAtStart = [t \in Tables |-> 0]
    /\ parquet_files = <<>>
    /\ lfailpc = "none"
    /\ totals = <<>>
    /\ loadedFiles = <<>>

CurTable == TABLES[lt]
AtGate == lpc = "check" /\ lt <= Len(TABLES)

\* What the loader of a table can find when it looks for its source: the
\* files are whatever the ingestion left, each may be there or not.
Found(table) ==
    CASE table = "marine_protected_areas" ->
            {[src EXCEPT !.mpa = b] : b \in BOOLEAN}
      [] table = "cetacean_sightings" ->
            {[src EXCEPT !.cet = b] : b \in BOOLEAN}
      [] table = "ais_positions" ->
            {[src EXCEPT !.ais = a] : a \in AisDirs}

\* load_all_data connects; no loader has looked for its source yet.
StartLoad ==
    /\ lpc \in {"idle", "closed"}
    /\ lruns < MaxLoadRuns
    /\ src' = [mpa |-> FALSE, cet |-> FALSE, ais |-> <<>>]
    /\ parquet_files' = <<>>
    /\ lfailpc' = "none"
    /\ totals' = <<>>
    /\ loadedFiles' = <<>>
    /\ lruns' = lruns + 1
    /\ lt' = 1
    /\ lpc' = "check"
    /\ pending' = 0
    /\ aidx' = 1
    /\ total_loaded' = 0
    /\ lresult' = "running"
    /\ report' = [t \in Tables |-> 0 - 1]
    /\ invoked' = {}
    /\ seen' = [t \in Tables |-> 0 - 1]
    /\ rowsAtStart' = rows
    /\ UNCHANGED <<rows, staging>>
    /\ LoadOnly

\* The gate finds rows: log and continue with the next table.
GateSkip ==
    /\ AtGate
    /\ AlreadyLoaded(rows[CurTable])
    /\ seen' = [seen EXCEPT ![CurTable] = rows[CurTable]]
    /\ lt' = lt + 1
    /\ UNCHANGED <<rows, staging, src, lpc, lruns, pending, aidx, total_loaded,
                   lresult, report, invoked, rowsAtStart>>
    /\ UNCHANGED <<parquet_files, lfailpc, totals, loadedFiles>>
    /\ LoadOnly

\* The gate finds no rows and calls the loader, which finds its source
\* missing, warns and returns.
LoaderNoSource ==
    /\ AtGate
    /\ ~AlreadyLoaded(rows[CurTable])
    /\ \E s \in Found(CurTable) :
            /\ ~SourcePresent(s, CurTable)
            /\ src' = s
    /\ seen' = [seen EXCEPT ![CurTable] = rows[CurTable]]
    /\ invoked' = invoked \cup {CurTable}
    /\ lt' = lt + 1
    /\ lpc' = AfterMissingSource
    /\ UNCHANGED <<rows, staging, lruns, pending, aidx, total_loaded,
                   lresult, report, rowsAtStart>>
    /\ UNCHANGED <<parquet_files, lfailpc, totals, loadedFiles>>
    /\ LoadOnly

\* load_mpa_data / load_cetacean_data: the file is read and the records
\* are built; execute_values is about to send them.
BeginBatch ==
    /\ AtGate
    /\ CurTable \in {"marine_protected_areas", "cetacean_sightings"}
    /\ ~AlreadyLoaded(rows[CurTable])
    /\ \E s \in Found(CurTable) :
            /\ SourcePresent(s, CurTable)
            /\ src' = s
    /\ seen' = [seen EXCEPT ![CurTable] = rows[CurTable]]
    /\ invoked' = invoked \cup {CurTable}
    /\ pending' = BatchRows
    /\ lpc' = "batch"
    /\ UNCHANGED <<rows, staging, lt, lruns, aidx, total_loaded, lresult,
                   report, rowsAtStart>>
    /\ UNCHANGED <<parquet_files, lfailpc, totals, loadedFiles>>
    /\ LoadOnly

\* execute_values: one INSERT statement with the next page of records.
\* After the last page the loader returns.
InsertPage ==
    /\ lpc = "batch"
    /\ pending > 0
    /\ LET n == Min(PageSize, pending)
       IN  /\ rows' = [rows EXCEPT ![CurTable] = @ + n]
           /\ pending' = pending - n
           /\ IF pending - n = 0
              THEN lt' = lt + 1 /\ lpc' = "check"
              ELSE UNCHANGED <<lt, lpc>>
    /\ UNCHANGED <<staging, src, lruns, aidx, total_loaded, lresult, report,
                   invoked, seen, rowsAtStart>>
    /\ UNCHANGED <<parquet_files, lfailpc, totals, loadedFiles>>
    /\ LoadOnly

\* load_ais_data: the sorted file list is not empty.
BeginAis ==
    /\ AtGate
    /\ CurTable = "ais_positions"
    /\ ~AlreadyLoaded(rows[CurTable])
    /\ \E s \in Found(CurTable) :
            /\ SourcePresent(s, CurTable)
            /\ src' = s
            /\ parquet_files' = SortedFiles(DOMAIN s.ais)
    /\ seen' = [seen EXCEPT ![CurTable] = rows[CurTable]]
    /\ invoked' = invoked \cup {CurTable}
    /\ aidx' = 1
    /\ total_loaded' = 0
    /\ lpc' = "ais_next"
    /\ UNCHANGED <<rows, staging, lt, lruns, pending, lresult, report,
                   rowsAtStart>>
    /\ UNCHANGED <<lfailpc, totals, loadedFiles>>
    /\ LoadOnly

\* The next file is read and flattened into the buffer, and
\* CREATE TEMP TABLE ais_staging is executed.
AisCreate ==
    /\ lpc = "ais_next"
    /\ aidx <= Len(parquet_files)
    /\ ~staging.exists
    /\ staging' = [exists |-> TRUE, rows |-> 0]
    /\ lpc' = "ais_copy"
    /\ UNCHANGED <<rows, src, lt, lruns, pending, aidx, total_loaded, lresult,
                   report, invoked, seen, rowsAtStart>>
    /\ UNCHANGED <<parquet_files, lfailpc, totals, loadedFiles>>
    /\ LoadOnly

\* COPY ais_staging FROM STDIN
AisCopy ==
    /\ lpc = "ais_copy"
    /\ staging' = [staging EXCEPT !.rows = src.ais[parquet_files[aidx]]]
    /\ lpc' = "ais_insert"
    /\ UNCHANGED <<rows, src, lt, lruns, pending, aidx, total_loaded, lresult,
                   report, invoked, seen, rowsAtStart>>
    /\ UNCHANGED <<parquet_files, lfailpc, totals, loadedFiles>>
    /\ LoadOnly

\* INSERT INTO ais_positions ... SELECT ... FROM ais_staging
AisInsert ==
    /\ lpc = "ais_insert"
    /\ rows' = [rows EXCEPT !["ais_positions"] =
                                    @ + InsertedFromStaging(staging)]
    /\ loadedFiles' = Append(loadedFiles, parquet_files[aidx])
    /\ lpc' = "ais_drop"
    /\ UNCHANGED <<staging, src, lt, lruns, pending, aidx, total_loaded,
                   lresult, report, invoked, seen, rowsAtStart>>
    /\ UNCHANGED <<parquet_files, lfailpc, totals>>
    /\ LoadOnly

\* DROP TABLE ais_staging; total_loaded += n_rows; the next file.
AisDrop ==
    /\ lpc = "ais_drop"
    /\ staging' = NoStaging
    /\ total_loaded' = total_loaded + src.ais[parquet_files[aidx]]
    /\ totals' = Append(totals, total_loaded + src.ais[parquet_files[aidx]])
    /\ aidx' = aidx + 1
    /\ lpc' = "ais_next"
    /\ UNCHANGED <<rows, src, lt, lruns, pending, lresult, report, invoked,
                   seen, rowsAtStart>>
    /\ UNCHANGED <<parquet_files, lfailpc, loadedFiles>>
    /\ LoadOnly

\* All files are loaded: load_ais_data returns.
AisReturn ==
    /\ lpc = "ais_next"
    /\ aidx > Len(parquet_files)
    /\ lt' = lt + 1
    /\ lpc' = "check"
    /\ UNCHANGED <<rows, staging, src, lruns, pending, aidx, total_loaded,
                   lresult, report, invoked, seen, rowsAtStart>>
    /\ UNCHANGED <<parquet_files, lfailpc, totals, loadedFiles>>
    /\ LoadOnly

\* The tables whose final row count this run has logged.
Reported == {t \in Tables : report[t] >= 0}

\* All tables are done: the next of the final row counts is read with its
\* own SELECT COUNT(*) and logged.
FinalCount ==
    /\ lpc = "check"
    /\ lt > Len(TABLES)
    /\ Cardinality(Reported) < Len(FINAL_TABLES)
    /\ LET table == FINAL_TABLES[Cardinality(Reported) + 1]
       IN  report' = [report EXCEPT ![table] = rows[table]]
    /\ UNCHANGED <<rows, staging, src, lpc, lt, lruns, pending, aidx,
                   total_loaded, lresult, invoked, seen, rowsAtStart>>
    /\ UNCHANGED <<parquet_files, lfailpc, totals, loadedFiles>>
    /\ LoadOnly

\* The final counts are logged: the finally block closes the cursor and
\* the connection.
Close ==
    /\ lpc = "check"
    /\ lt > Len(TABLES)
    /\ Cardinality(Reported) = Len(FINAL_TABLES)
    /\ lresult' = "ok"
    /\ lpc' = "closed"
    /\ staging' = SessionEnd(staging)
    /\ UNCHANGED <<rows, src, lt, lruns, pending, aidx, total_loaded, report,
                   invoked, seen, rowsAtStart>>
    /\ UNCHANGED <<parquet_files, lfailpc, totals, loadedFiles>>
    /\ LoadOnly

\* A statement or a file read raises, or the process is stopped: the error
\* leaves the loader and load_all_data; the connection is closed (by the
\* finally block, or with the process) and the session's temporary table
\* goes with it.  What was committed stays.
LoadFail ==
    /\ lpc \notin {"idle", "closed"}
    /\ lresult' = "failed"
    /\ lfailpc' = lpc
    /\ lpc' = AfterLoaderError
    /\ staging' = SessionEnd(staging)
    /\ rows' = RowsAfterError(rows, rowsAtStart)
    /\ UNCHANGED <<src, lt, lruns, pending, aidx, total_loaded, report,
                   invoked, seen, rowsAtStart>>
    /\ UNCHANGED <<parquet_files, totals, loadedFiles>>
    /\ LoadOnly

LoadNext ==
    \/ StartLoad
    \/ GateSkip
    \/ LoaderNoSource
    \/ BeginBatch
    \/ InsertPage
    \/ BeginAis
    \/ AisCreate
    \/ AisCopy
    \/ AisInsert
    \/ AisDrop
    \/ AisReturn
    \/ FinalCount
    \/ Close
    \/ LoadFail

(***************************************************************************)
(* download_mpa.py: the archive normalizer.  One zip archive is fetched,   *)
(* extracted into a temporary directory, read, filtered to the US coast    *)
(* and written as a parquet snapshot; then the archive is deleted.         *)
(***************************************************************************)
\* US_COAST_BBOX = (lon_min, lat_min, lon_max, lat_max), in whole degrees.
US_COAST_BBOX == <<-130, 24, -65, 49>>

\* Bounding boxes <<minx, miny, maxx, maxy>> in EPSG:4326 that a feature
\* of the inventory can have: inside the region, across each of its four
\* edges, equal to it, around it, and away from it.
BoxPool ==
    { <<-70, 30, -68, 32>>,
      <<-66, 30, -64, 32>>,
      <<-131, 30, -129, 32>>,
      <<-70, 23, -68, 25>>,
      <<-70, 48, -68, 50>>,
      <<-130, 24, -65, 49>>,
      <<-140, 20, -60, 55>>,
      <<-60, 30, -58, 32>> }

\* The coordinate reference systems a geodatabase is read with: WGS84,
\* none at all, and one that is not WGS84.  The last is a geographic
\* system whose longitudes run from 0 to 360.
Crs == {"EPSG:4326", "none", "LON360"}

\* The same box in the 0..360 system.
ToLon360(b) == <<b[1] + 360, b[2], b[3] + 360, b[4]>>

\* The boxes as they are stored in a geodatabase of a given system.  A
\* file without a system holds numbers of either kind.
RawBoxes(crs) ==
    CASE crs = "EPSG:4326" -> BoxPool
      [] crs = "LON360" -> {ToLon360(b) : b \in BoxPool}
      [] crs = "none" ->
            BoxPool \cup {ToLon360(<<-70, 30, -68, 32>>)}

\* The frames gpd.read_file can return: rows 1..n with their index label
\* and the bounds of their geometry.
Gdfs(crs) ==
    UNION {[1 .. n -> RawBoxes(crs)] : n \in 0 .. MaxFeatures}

Frame(boxes) == [k \in 1 .. Len(boxes) |-> [index |-> k, bounds |-> boxes[k]]]

\* gdf.to_crs(epsg=4326) from the 0..360 system.
to_crs(g) ==
    [k \in 1 .. Len(g) |->
        [g[k] EXCEPT !.bounds = <<@[1] - 360, @[2], @[3] - 360, @[4]>>]]

\* A mask that keeps every box that touches the region.
Mask_Intersects(b) ==
    /\ b[3] >= US_COAST_BBOX[1]
    /\ b[1] <= US_COAST_BBOX[3]
    /\ b[4] >= US_COAST_BBOX[2]
    /\ b[2] <= US_COAST_BBOX[4]

\* (minx >= lon_min) & (maxx <= lon_max) & (miny >= lat_min) &
\* (maxy <= lat_max)
Mask(b) ==
    /\ b[1] >= US_COAST_BBOX[1]
    /\ b[3] <= US_COAST_BBOX[3]
    /\ b[2] >= US_COAST_BBOX[2]
    /\ b[4] <= US_COAST_BBOX[4]

\* gdf[mask]: the rows whose mask is true, in the order of the frame.
RECURSIVE Keep(_, _)
Keep(g, k) ==
    IF k > Len(g) THEN <<>>
    ELSE (IF Mask(g[k].bounds) THEN <<g[k]>> ELSE <<>>) \o Keep(g, k + 1)

\* filter_us_coast
filter_us_coast(g, crs) ==
    LET wgs == IF crs # "none" /\ crs # "EPSG:4326" THEN to_crs(g) ELSE g
    IN  Keep(wgs, 1)

NoZip == [exists |-> FALSE, size |-> 0, gdb |-> FALSE]

NoOutput == [exists |-> FALSE, complete |-> FALSE, features |-> <<>>]

\* A gate that never finds the snapshot.
SnapshotPresent_Never(f) == FALSE

\* OUTPUT_FILE.exists()
SnapshotPresent(f) == f.exists

\* A check that takes only a complete archive for one that is there.
ArchivePresent_IfComplete(z) == z.exists /\ z.size = ZipChunks

\* zip_path.exists()
ArchivePresent(z) == z.exists

\* A save that writes no file.
SavedSnapshot_Nothing(g) ==
    [exists |-> FALSE, complete |-> FALSE, features |-> <<>>]

\* gdf.to_parquet(output_path): the file holds the frame.
SavedSnapshot(g) == [exists |-> TRUE, complete |-> TRUE, features |-> g]

\* A handler that leaves the archive where it is.
RemoveZip_Keep(z) == z

\* if zip_path.exists(): zip_path.unlink()
RemoveZip(z) == [exists |-> FALSE, size |-> 0, gdb |-> FALSE]

\* A workspace made with mkdtemp, which nobody removes.
CleanTmp_Keep(dirs, run) == dirs

\* The end of "with tempfile.TemporaryDirectory()": the directory of this
\* call is removed, however the block was left.
CleanTmp(dirs, run) == dirs \ {run}

\* A step of the normalizer leaves the rest alone.
MpaOnly == UNCHANGED <<fetchVars, datesVars, loadVars, nullVars>>

MpaIdle ==
    /\ output_file = NoOutput
    /\ zip_file = NoZip
    /\ tmpdirs = {}
    /\ mpc = "idle"
    /\ mruns = 0
    /\ mresult = "none"
    /\ merr = "none"
    /\ mrequests = 0
    /\ mchunks = 0
    /\ gdf = <<>>
    /\ gdf_crs = "none"
    /\ gdf_us = <<>>
    /\ zipAtStart = NoZip
    /\ outAtStart = NoOutput
    /\ zipSeen = FALSE

\* download_mpa_data is called: OUTPUT_DIR.mkdir.
StartMpa ==
    /\ mpc \in {"idle", "ended"}
    /\ mruns < MaxMpaRuns
    /\ mruns' = mruns + 1
    /\ mpc' = "gate"
    /\ mresult' = "running"
    /\ merr' = "none"
    /\ mrequests' = 0
    /\ mchunks' = 0
    /\ gdf' = <<>>
    /\ gdf_crs' = "none"
    /\ gdf_us' = <<>>
    /\ zipAtStart' = zip_file
    /\ outAtStart' = output_file
    /\ zipSeen' = zip_file.exists
    /\ UNCHANGED <<output_file, zip_file, tmpdirs>>
    /\ MpaOnly

\* The snapshot exists: log and return.
SnapshotSkip ==
    /\ mpc = "gate"
    /\ SnapshotPresent(output_file)
    /\ mresult' = "skipped"
    /\ mpc' = "ended"
    /\ UNCHANGED <<output_file, zip_file, tmpdirs, mruns, merr, mrequests,
                   mchunks, gdf, gdf_crs, gdf_us, zipAtStart, outAtStart, zipSeen>>
    /\ MpaOnly

\* download_mpa_zip finds the archive file and returns its path.
ZipReuse ==
    /\ mpc = "gate"
    /\ ~SnapshotPresent(output_file)
    /\ ArchivePresent(zip_file)
    /\ mpc' = "extract"
    /\ UNCHANGED <<output_file, zip_file, tmpdirs, mruns, mresult, merr,
                   mrequests, mchunks, gdf, gdf_crs, gdf_us, zipAtStart,
                   outAtStart, zipSeen>>
    /\ MpaOnly

\* download_mpa_zip finds no archive file: httpx.stream sends the request
\* and waits for the response.
ZipSendRequest ==
    /\ mpc = "gate"
    /\ ~SnapshotPresent(output_file)
    /\ ~ArchivePresent(zip_file)
    /\ mrequests' = mrequests + 1
    /\ mpc' = "request"
    /\ UNCHANGED <<output_file, zip_file, tmpdirs, mruns, mresult, merr,
                   mchunks, gdf, gdf_crs, gdf_us, zipAtStart, outAtStart,
                   zipSeen>>
    /\ MpaOnly

\* The response has an error status: raise_for_status raises
\* HTTPStatusError before the file is opened; the handler removes the
\* archive if there is one and raises again.
ZipHttpError ==
    /\ mpc = "request"
    /\ zip_file' = RemoveZip(zip_file)
    /\ mresult' = "failed"
    /\ merr' = "http"
    /\ mpc' = "ended"
    /\ UNCHANGED <<output_file, tmpdirs, mruns, mrequests, mchunks, gdf,
                   gdf_crs, gdf_us, zipAtStart, outAtStart, zipSeen>>
    /\ MpaOnly

\* No response arrives (connection, timeout): httpx.RequestError.
ZipConnectError ==
    /\ mpc = "request"
    /\ zip_file' = RemoveZip(zip_file)
    /\ mresult' = "failed"
    /\ merr' = "transport"
    /\ mpc' = "ended"
    /\ UNCHANGED <<output_file, tmpdirs, mruns, mrequests, mchunks, gdf,
                   gdf_crs, gdf_us, zipAtStart, outAtStart, zipSeen>>
    /\ MpaOnly

\* The response is a success: open(zip_path, "wb").  The archive that is
\* being sent holds a .gdb directory or it does not.
ZipBeginStream ==
    /\ mpc = "request"
    /\ \E b \in BOOLEAN :
            zip_file' = [exists |-> TRUE, size |-> 0, gdb |-> b]
    /\ zipSeen' = TRUE
    /\ mpc' = "stream"
    /\ UNCHANGED <<output_file, tmpdirs, mruns, mresult, merr, mrequests,
                   mchunks, gdf, gdf_crs, gdf_us, zipAtStart, outAtStart>>
    /\ MpaOnly

\* f.write(chunk)
ZipWriteChunk ==
    /\ mpc = "stream"
    /\ zip_file.size < ZipChunks
    /\ zip_file' = [zip_file EXCEPT !.size = @ + 1]
    /\ mchunks' = mchunks + 1
    /\ UNCHANGED <<output_file, tmpdirs, mpc, mruns, mresult, merr, mrequests,
                   gdf, gdf_crs, gdf_us, zipAtStart, outAtStart, zipSeen>>
    /\ MpaOnly

\* iter_bytes raises httpx.RequestError, before a chunk, between two
\* chunks or after the last one: the handler removes the archive and
\* raises again.
ZipStreamError ==
    /\ mpc = "stream"
    /\ zip_file' = RemoveZip(zip_file)
    /\ mresult' = "failed"
    /\ merr' = "transport"
    /\ mpc' = "ended"
    /\ UNCHANGED <<output_file, tmpdirs, mruns, mrequests, mchunks, gdf,
                   gdf_crs, gdf_us, zipAtStart, outAtStart, zipSeen>>
    /\ MpaOnly

\* The last chunk is written: download_mpa_zip returns the path.
ZipStreamDone ==
    /\ mpc = "stream"
    /\ zip_file.size = ZipChunks
    /\ mpc' = "extract"
    /\ UNCHANGED <<output_file, zip_file, tmpdirs, mruns, mresult, merr,
                   mrequests, mchunks, gdf, gdf_crs, gdf_us, zipAtStart,
                   outAtStart, zipSeen>>
    /\ MpaOnly

\* extract_and_read_geodatabase: the temporary directory is made and the
\* archive is extracted into it.
Extract ==
    /\ mpc = "extract"
    /\ zip_file.size = ZipChunks
    /\ tmpdirs' = tmpdirs \cup {mruns}
    /\ mpc' = "scan"
    /\ UNCHANGED <<output_file, zip_file, mruns, mresult, merr, mrequests,
                   mchunks, gdf, gdf_crs, gdf_us, zipAtStart, outAtStart, zipSeen>>
    /\ MpaOnly

\* The archive file is a truncated one: zipfile.ZipFile raises BadZipFile
\* inside the with block, which removes the temporary directory.
ExtractBadZip ==
    /\ mpc = "extract"
    /\ zip_file.size < ZipChunks
    /\ tmpdirs' = CleanTmp(tmpdirs \cup {mruns}, mruns)
    /\ mresult' = "failed"
    /\ merr' = "badzip"
    /\ mpc' = "ended"
    /\ UNCHANGED <<output_file, zip_file, mruns, mrequests, mchunks, gdf,
                   gdf_crs, gdf_us, zipAtStart, outAtStart, zipSeen>>
    /\ MpaOnly

\* rglob("*.gdb") finds nothing: FileNotFoundError.
NoGdb ==
    /\ mpc = "scan"
    /\ ~zip_file.gdb
    /\ tmpdirs' = CleanTmp(tmpdirs, mruns)
    /\ mresult' = "failed"
    /\ merr' = "nogdb"
    /\ mpc' = "ended"
    /\ UNCHANGED <<output_file, zip_file, mruns, mrequests, mchunks, gdf,
                   gdf_crs, gdf_us, zipAtStart, outAtStart, zipSeen>>
    /\ MpaOnly

\* gpd.read_file(gdb_dirs[0]); the with block ends.
ReadGdb ==
    /\ mpc = "scan"
    /\ zip_file.gdb
    /\ \E crs \in Crs :
        \E boxes \in Gdfs(crs) :
            /\ gdf' = Frame(boxes)
            /\ gdf_crs' = crs
    /\ tmpdirs' = CleanTmp(tmpdirs, mruns)
    /\ mpc' = "filter"
    /\ UNCHANGED <<output_file, zip_file, mruns, mresult, merr, mrequests,
                   mchunks, gdf_us, zipAtStart, outAtStart, zipSeen>>
    /\ MpaOnly

\* gpd.read_file raises (a geodatabase that cannot be read): the error
\* leaves the with block, which removes the temporary directory, and
\* download_mpa_data.
ReadGdbError ==
    /\ mpc = "scan"
    /\ zip_file.gdb
    /\ tmpdirs' = CleanTmp(tmpdirs, mruns)
    /\ mresult' = "failed"
    /\ merr' = "readfail"
    /\ mpc' = "ended"
    /\ UNCHANGED <<output_file, zip_file, mruns, mrequests, mchunks, gdf,
                   gdf_crs, gdf_us, zipAtStart, outAtStart, zipSeen>>
    /\ MpaOnly

\* gdf_us = filter_us_coast(gdf)
Filter ==
    /\ mpc = "filter"
    /\ gdf_us' = filter_us_coast(gdf, gdf_crs)
    /\ mpc' = "save"
    /\ UNCHANGED <<output_file, zip_file, tmpdirs, mruns, mresult, merr,
                   mrequests, mchunks, gdf, gdf_crs, zipAtStart, outAtStart, zipSeen>>
    /\ MpaOnly

\* save_to_parquet: gdf.to_parquet opens OUTPUT_FILE for writing.
SaveBegin ==
    /\ mpc = "save"
    /\ output_file' = [exists |-> TRUE, complete |-> FALSE, features |-> <<>>]
    /\ mpc' = "saving"
    /\ UNCHANGED <<zip_file, tmpdirs, mruns, mresult, merr, mrequests, mchunks,
                   gdf, gdf_crs, gdf_us, zipAtStart, outAtStart, zipSeen>>
    /\ MpaOnly

\* to_parquet has written the file.
SaveDone ==
    /\ mpc = "saving"
    /\ output_file' = SavedSnapshot(gdf_us)
    /\ mpc' = "unlink"
    /\ UNCHANGED <<zip_file, tmpdirs, mruns, mresult, merr, mrequests, mchunks,
                   gdf, gdf_crs, gdf_us, zipAtStart, outAtStart, zipSeen>>
    /\ MpaOnly

\* to_parquet raises an Exception while it writes (a full disk): the
\* writer removes the file it began and raises again; no except clause of
\* download_mpa.py takes the error, the archive stays.
SaveError ==
    /\ mpc = "saving"
    /\ output_file' = NoOutput
    /\ mresult' = "failed"
    /\ merr' = "savefail"
    /\ mpc' = "ended"
    /\ UNCHANGED <<zip_file, tmpdirs, mruns, mrequests, mchunks, gdf, gdf_crs,
                   gdf_us, zipAtStart, outAtStart, zipSeen>>
    /\ MpaOnly

\* zip_path.unlink(); the columns and the CRS are logged.
UnlinkZip ==
    /\ mpc = "unlink"
    /\ zip_file' = NoZip
    /\ mresult' = "ok"
    /\ mpc' = "ended"
    /\ UNCHANGED <<output_file, tmpdirs, mruns, merr, mrequests, mchunks, gdf,
                   gdf_crs, gdf_us, zipAtStart, outAtStart, zipSeen>>
    /\ MpaOnly

\* KeyboardInterrupt is raised where the run is, or f.write raises an
\* error that is no httpx error: no except clause takes it, so the files
\* stay as they are; a with block it leaves removes the temporary
\* directory.
MpaException ==
    /\ mpc \notin {"idle", "ended"}
    /\ tmpdirs' = CleanTmp(tmpdirs, mruns)
    /\ mresult' = "interrupted"
    /\ merr' = "interrupt"
    /\ mpc' = "ended"
    /\ UNCHANGED <<output_file, zip_file, mruns, mrequests, mchunks, gdf,
                   gdf_crs, gdf_us, zipAtStart, outAtStart, zipSeen>>
    /\ MpaOnly

\* The process is killed where it is: no handler and no cleanup runs, the
\* files and the temporary directory stay as they are.
MpaInterrupt ==
    /\ mpc \notin {"idle", "ended"}
    /\ mresult' = "interrupted"
    /\ merr' = "interrupt"
    /\ mpc' = "ended"
    /\ UNCHANGED <<output_file, zip_file, tmpdirs, mruns, mrequests, mchunks,
                   gdf, gdf_crs, gdf_us, zipAtStart, outAtStart, zipSeen>>
    /\ MpaOnly

MpaNext ==
    \/ StartMpa
    \/ SnapshotSkip
    \/ ZipReuse
    \/ ZipSendRequest
    \/ ZipHttpError
    \/ ZipConnectError
    \/ ZipBeginStream
    \/ ZipWriteChunk
    \/ ZipStreamError
    \/ ZipStreamDone
    \/ Extract
    \/ ExtractBadZip
    \/ NoGdb
    \/ ReadGdb
    \/ ReadGdbError
    \/ Filter
    \/ SaveBegin
    \/ SaveDone
    \/ SaveError
    \/ UnlinkZip
    \/ MpaException
    \/ MpaInterrupt

(***************************************************************************)
(* load_data.py: what becomes of one field of one record on its way from   *)
(* the source frame to the table.  A value is followed through the three   *)
(* stages of its loader: the Python value the loader builds, what is sent  *)
(* to the server (an adapted query parameter, or a cell of the COPY        *)
(* buffer), and what the INSERT stores.                                    *)
(***************************************************************************)
\* Python values.
PyNone == [k |-> "None", s |-> ""]
PyNaN == [k |-> "nan", s |-> ""]
PyNaT == [k |-> "NaT", s |-> ""]
PyStr(x) == [k |-> "str", s |-> x]
\* A number, with the text Python writes it as: 7 for an int, 7.0 for a
\* float.
PyNum(x) == [k |-> "number", s |-> x]
PyTime(x) == [k |-> "datetime", s |-> x]

\* SQL values, and the failure of the statement.
SqlNull == [k |-> "NULL", s |-> ""]
SqlText(x) == [k |-> "text", s |-> x]
SqlNum(x) == [k |-> "numeric", s |-> x]
SqlTime(x) == [k |-> "timestamp", s |-> x]
Raised == [k |-> "error", s |-> ""]

\* The whole numbers 0..9 as texts: str(n) of an int, repr of the float of
\* the same value.
Digits == <<"0", "1", "2", "3", "4", "5", "6", "7", "8", "9">>

IntText(n) == Digits[n + 1]

FloatText(n) == IntText(n) \o ".0"

IsIntText(t) == \E n \in 0 .. 9 : t = IntText(n)

IsFloatText(t) == \E n \in 0 .. 9 : t = FloatText(n)

\* The number a text stands for.
NumOf(t) == CHOOSE n \in 0 .. 9 : t \in {IntText(n), FloatText(n)}

\* One column of a loader: the dtype of its source column, how the loader
\* builds the value ("item": row["X"]; "get": row.get("X"); "guard_int",
\* "guard_float", "guard_str": int(), float(), str() of the value under
\* pd.notna; "column": the column of the flat frame; "astype_str": the
\* column .astype(str)), the type of the staging column
\* (AIS only), the type of the table's column and whether it is NOT NULL.
Field(loader, column, dtype, build, staging_type, coltype, notnull) ==
    [loader |-> loader, column |-> column, dtype |-> dtype, build |-> build,
     staging_type |-> staging_type, coltype |-> coltype, notnull |-> notnull]

\* The columns of marine_protected_areas that load_mpa_data fills from the
\* attributes of a feature.
MpaFields ==
    {Field("load_mpa_data", c, "str", "item", "", "TEXT", FALSE) :
        c \in {"site_id", "site_name", "gov_level", "state", "prot_lvl",
               "mgmt_agen"}}
    \cup {Field("load_mpa_data", "iucn_cat", "str", "get", "", "TEXT", FALSE)}
    \cup {Field("load_mpa_data", c, "number", "guard_int", "", "SMALLINT",
                FALSE) :
            c \in {"estab_yr", "mar_percent"}}
    \cup {Field("load_mpa_data", c, "number", "guard_float", "", "REAL",
                FALSE) :
            c \in {"area_km", "area_mar"}}

\* The columns of cetacean_sightings that load_cetacean_data fills.
CetaceanFields ==
    {Field("load_cetacean_data", c, "str", "get", "", "TEXT", FALSE) :
        c \in {"scientific_name", "order", "family", "species"}}
    \cup {Field("load_cetacean_data", c, "number", "item", "",
                "DOUBLE PRECISION", TRUE) :
            c \in {"decimal_latitude", "decimal_longitude"}}
    \cup {Field("load_cetacean_data", "event_date", "str", "guard_str", "",
                "TEXT", FALSE)}
    \cup {Field("load_cetacean_data", "date_year", "number", "guard_int", "",
                "SMALLINT", FALSE)}

\* The columns of ais_positions that load_ais_data fills.
AisFields ==
    {Field("load_ais_data", "mmsi", "number", "column", "INTEGER", "INTEGER",
           TRUE)}
    \cup {Field("load_ais_data", "base_date_time", "datetime", "astype_str",
                "TEXT", "TIMESTAMP", TRUE)}
    \cup {Field("load_ais_data", c, "number", "column", "REAL", "REAL", FALSE) :
            c \in {"sog", "cog", "length", "draft"}}
    \cup {Field("load_ais_data", c, "number", "column", "SMALLINT", "SMALLINT",
                FALSE) :
            c \in {"heading", "vessel_type", "status", "width", "cargo"}}
    \cup {Field("load_ais_data", c, "str", "column", "TEXT", "TEXT", FALSE) :
            c \in {"vessel_name", "imo", "call_sign"}}
    \cup {Field("load_ais_data", "transceiver", "str", "column", "TEXT",
                "CHAR(1)", FALSE)}

Fields == MpaFields \cup CetaceanFields \cup AisFields

NoField == Field("", "", "", "", "", "", FALSE)

\* How pandas holds a missing value in a column: NaN in a numeric column,
\* NaT in a datetime column, None or NaN in a column of strings (None in
\* an object column read from parquet, NaN in a column of the str dtype
\* and in an object column built from NaN).
Missing(dtype) ==
    CASE dtype = "str" -> {PyNone, PyNaN}
      [] dtype = "number" -> {PyNaN}
      [] dtype = "datetime" -> {PyNaT}

\* A value that is there.  A number is an int in a column of integers and
\* a float in a column of floats, which is also how pandas holds a column
\* of integers that has a missing value.
Present(dtype) ==
    CASE dtype = "str" -> {PyStr("abc"), PyStr("A"), PyStr("")}
      [] dtype = "number" -> {PyNum(IntText(7)), PyNum(FloatText(7))}
      [] dtype = "datetime" -> {PyTime("2024-01-01 00:00:00")}

\* pd.isna / pd.notna
IsNa(x) == x \in {PyNone, PyNaN, PyNaT}

NotNa(x) == ~IsNa(x)

\* The value the loader puts into the record (the batch loaders) or into
\* the flat frame (load_ais_data).
BuildValue(f, x) ==
    CASE f.build \in {"item", "get", "column"} -> x
      [] f.build = "guard_int" ->
            IF NotNa(x) THEN PyNum(IntText(NumOf(x.s))) ELSE PyNone
      [] f.build = "guard_float" ->
            IF NotNa(x) THEN PyNum(FloatText(NumOf(x.s))) ELSE PyNone
      [] f.build = "guard_str" ->
            IF NotNa(x) THEN PyStr(x.s) ELSE PyNone
      [] f.build = "astype_str" ->
            IF x = PyNaT THEN PyStr("NaT") ELSE PyStr(x.s)

\* psycopg2's adaptation of a query parameter: None is NULL, a float nan
\* is 'NaN'::float, NaT has no adapter.
Adapt(x) ==
    CASE x = PyNone -> SqlNull
      [] x = PyNaN -> SqlNum("NaN")
      [] x = PyNaT -> Raised
      [] x.k = "str" -> SqlText(x.s)
      [] x.k = "number" -> SqlNum(x.s)
      [] x.k = "datetime" -> SqlTime(x.s)

\* na_rep="\\N"
NaRep == "\\N"

\* COPY ... WITH (FORMAT text, NULL '\\N')
CopyNull == "\\N"

\* to_csv: the text of one cell.
ToCsv(x) == IF IsNa(x) THEN NaRep ELSE x.s

\* COPY: one cell of the buffer read into its staging column by the input
\* function of the column's type.  An integer column takes digits only
\* (not 7.0), a REAL column a number written either way; any other cell
\* fails the statement.
CopyCell(cell, staging_type) ==
    IF cell = CopyNull THEN SqlNull
    ELSE IF staging_type = "TEXT" THEN SqlText(cell)
    ELSE IF staging_type \in {"INTEGER", "SMALLINT"}
    THEN (IF IsIntText(cell) THEN SqlNum(cell) ELSE Raised)
    ELSE IF IsIntText(cell) \/ IsFloatText(cell)
    THEN SqlNum(IntText(NumOf(cell)))
    ELSE Raised

\* A text assigned to a CHAR(1) column: one that is longer fails the
\* statement, a shorter one is padded with blanks.
ToChar1(x) ==
    IF Len(x) > 1 THEN Raised
    ELSE IF Len(x) = 0 THEN SqlText(" ")
    ELSE SqlText(x)

\* The INSERT: the value as the table's column takes it.  A NULL into a
\* NOT NULL column, a text that is no timestamp and a text too long for
\* its column fail the statement; a double precision NaN is stored as the
\* text NaN in a TEXT column, as NaN in a REAL or DOUBLE PRECISION column
\* and fits no integer column; a number is cast to the column's type (the
\* whole number 7.0 is 7 in every numeric column).
StoreValue(f, v) ==
    CASE v = Raised -> Raised
      [] v = SqlNull -> IF f.notnull THEN Raised ELSE SqlNull
      [] v = SqlNum("NaN") ->
            IF f.coltype = "TEXT" THEN SqlText("NaN")
            ELSE IF f.coltype \in {"REAL", "DOUBLE PRECISION"} THEN v
            ELSE Raised
      [] OTHER ->
            IF f.coltype = "TIMESTAMP"
            THEN (IF v.s = "NaT" THEN Raised ELSE SqlTime(v.s))
            ELSE IF f.coltype = "TEXT" THEN SqlText(v.s)
            ELSE IF f.coltype = "CHAR(1)" THEN ToChar1(v.s)
            ELSE SqlNum(IntText(NumOf(v.s)))

\* A step on one value leaves the rest alone.
NullOnly == UNCHANGED <<fetchVars, datesVars, loadVars, mpaVars>>

NullIdle ==
    /\ n_pc = "idle"
    /\ n_field = NoField
    /\ n_src = PyNone
    /\ n_val = PyNone

\* One field of one record of a source frame, with a value or without.
NullInit ==
    /\ n_pc = "source"
    /\ n_field \in Fields
    /\ n_src \in Missing(n_field.dtype) \cup Present(n_field.dtype)
    /\ n_val = n_src

\* The loader builds its record (or its flat frame).
Build ==
    /\ n_pc = "source"
    /\ n_val' = BuildValue(n_field, n_src)
    /\ n_pc' = "built"
    /\ UNCHANGED <<n_field, n_src>>
    /\ NullOnly

\* execute_values adapts the parameter; load_ais_data writes the cell with
\* to_csv and COPY reads it into the staging table.
Send ==
    /\ n_pc = "built"
    /\ n_val' = IF n_field.loader = "load_ais_data"
                THEN CopyCell(ToCsv(n_val), n_field.staging_type)
                ELSE Adapt(n_val)
    /\ n_pc' = "sent"
    /\ UNCHANGED <<n_field, n_src>>
    /\ NullOnly

\* The INSERT into the table.
Store ==
    /\ n_pc = "sent"
    /\ n_val' = StoreValue(n_field, n_val)
    /\ n_pc' = "stored"
    /\ UNCHANGED <<n_field, n_src>>
    /\ NullOnly

NullNext ==
    \/ Build
    \/ Send
    \/ Store

(***************************************************************************)
(* The specifications.                                                     *)
(***************************************************************************)
vars == <<fetchVars, datesVars, loadVars, mpaVars, nullVars>>

Init == FetchInit /\ DatesIdle /\ LoadIdle /\ MpaIdle /\ NullIdle

Next == FetchNext

\* The fetch coordinator: runs of download_all_ais_data.
Spec == Init /\ [][Next]_vars

\* Runs of download_all_ais_data without end, none of them stopped on its
\* way.
NextConverge ==
    \/ StartRun
    \/ Rerun
    \/ Skip
    \/ SendRequest
    \/ HttpError
    \/ ConnectError
    \/ BeginStream
    \/ WriteChunk
    \/ StreamError
    \/ StreamDone
    \/ Sleep
    \/ Finish

\* The program is run again and again and every run goes on to its end;
\* the network is up in a run again and again; a request that can be
\* answered with a success is so again and again, and so is each chunk of
\* a response delivered and the response brought to its end.
FairNetwork ==
    /\ WF_vars(NextConverge)
    /\ SF_vars(Rerun /\ netUp')
    /\ SF_vars(BeginStream)
    /\ \A k \in 0 .. RemoteChunks - 1 :
            SF_vars(WriteChunk /\ files[CurPath].size = k)
    /\ SF_vars(StreamDone)

SpecConverge == Init /\ [][NextConverge]_vars /\ FairNetwork

\* The unit enumerator: one call of generate_dates.
InitDates == FetchInit /\ DatesInit /\ LoadIdle /\ MpaIdle /\ NullIdle

SpecDates == InitDates /\ [][DatesNext]_vars

\* The load orchestrator: runs of load_all_data.
SpecLoad == Init /\ [][LoadNext]_vars

\* The archive normalizer: runs of download_mpa_data.
SpecMpa == Init /\ [][MpaNext]_vars

\* One field of one record through its loader.
InitNull == FetchInit /\ DatesIdle /\ LoadIdle /\ MpaIdle /\ NullInit

SpecNull == InitNull /\ [][NullNext]_vars

(***************************************************************************)
(* Properties of the fetch coordinator (under Spec).                       *)
(***************************************************************************)
TransportFailures == {"HTTPStatusError", "RequestError"}

\* The sequence a run is to work through, from the ordinals alone.
ExpectedDates == [k \in 1 .. NumUnits |-> DateAt(Ordinal(START_DATE) + k - 1)]

\* A new call of download_file begins in this step.
NewAttempt == Len(attempts') = Len(attempts) + 1

\* C1: whenever download_file has returned from a transport failure (a
\* non-success status, a connection error or timeout before or during the
\* stream), the destination path is absent and the result is False.
C1_FailureLeavesNoFile ==
    last.branch \in TransportFailures =>
        /\ ~files[Filename(last.unit)].exists
        /\ last.result = FALSE
        /\ truth[last.unit] = "failed"

\* A stream that broke after at least one chunk was written, and the file
\* is gone.
C1_Witness ==
    /\ last.branch = "RequestError"
    /\ last.partial >= 1
    /\ ~files[Filename(last.unit)].exists

\* C2: whenever no fetch is in progress (before a run, after a completed
\* run, after an interrupted one), every file present at a destination path
\* is complete.
C2_NoPartialAtRest ==
    pc \in {"idle", "done", "crashed"} =>
        \A p \in Paths : files[p].exists => files[p].size = RemoteChunks

\* An interrupted run has left a truncated file at the canonical path.
C2_Witness ==
    /\ pc = "crashed"
    /\ \E p \in Paths : files[p].exists /\ files[p].size < RemoteChunks

\* C3: a call of download_file for a unit whose destination exists and is
\* non-empty issues no request, leaves the files as they are, returns False
\* and is counted as skipped.
C3_SkipExisting ==
    [][(InLoop /\ files[CurPath].exists /\ files[CurPath].size > 0
            /\ pc' # "crashed")
        => /\ files' = files
           /\ requests' = requests
           /\ NewAttempt
           /\ last'.branch = "skip" /\ last'.result = FALSE
           /\ skipped' = skipped + 1
           /\ downloaded' = downloaded /\ failed' = failed]_vars

\* A complete file was skipped.
C3_Witness ==
    /\ last.branch = "skip"
    /\ files[Filename(last.unit)].size = RemoteChunks
    /\ last.unit \notin requests

\* C4: a destination that is absent or empty is fetched, and only a
\* non-empty destination is skipped.
C4_FetchUnlessNonEmpty ==
    [][(InLoop /\ pc' # "crashed")
        => IF files[CurPath].exists /\ files[CurPath].size > 0
           THEN requests' = requests /\ last'.branch = "skip"
           ELSE CurDate \in requests']_vars

\* What the skip-check does instead: a destination that is absent is
\* requested; every existing destination, empty or not, is skipped
\* without a request.
FetchIffAbsent ==
    [][(InLoop /\ pc' # "crashed")
        => IF files[CurPath].exists
           THEN /\ requests' = requests
                /\ files' = files
                /\ last'.branch = "skip"
           ELSE /\ CurDate \in requests'
                /\ pc' = "request"
                /\ files' = files]_vars

\* An empty file was skipped in a run that did fetch another unit.
C4_Witness ==
    /\ last.branch = "skip"
    /\ files[Filename(last.unit)] = [exists |-> TRUE, size |-> 0]
    /\ requests # {}

\* C5: the calls of download_file in a run are the enumerated dates, each
\* once and in ascending order; a transport failure of one unit is followed
\* by the loop going on to the next; a completed run has made NumUnits calls.
C5_EveryUnitOnceInOrder ==
    /\ [](/\ Len(attempts) <= NumUnits
          /\ attempts = SubSeq(ExpectedDates, 1, Len(attempts))
          /\ (pc = "loop" => Len(attempts) = i - 1)
          /\ (pc = "done" => attempts = ExpectedDates))
    /\ [][(last' # last /\ last'.branch \in TransportFailures)
            => (pc' = "loop" /\ i' = i + 1)]_vars

\* A completed run whose first unit failed and whose last was downloaded.
C5_Witness ==
    /\ pc = "done"
    /\ truth[ExpectedDates[1]] = "failed"
    /\ truth[ExpectedDates[NumUnits]] = "downloaded"

Count(outcome) == Cardinality({dt \in UnitDates : truth[dt] = outcome})

\* C6: the three counters equal the numbers of units with that true
\* outcome, and after the sequence is exhausted they add up to the number
\* of units.
C6_CountersTrue ==
    /\ pc # "idle" =>
        /\ downloaded = Count("downloaded")
        /\ skipped = Count("skipped")
        /\ failed = Count("failed")
    /\ pc = "done" => downloaded + skipped + failed = NumUnits

\* A completed run with one unit of each outcome.
C6_Witness ==
    /\ pc = "done"
    /\ downloaded >= 1 /\ skipped >= 1 /\ failed >= 1

\* C7: a new call of download_file never follows a request (successful or
\* failed) without a pause in between.
C7_PauseAfterEveryRequest ==
    [][NewAttempt => sinceReq # "request"]_vars

\* A unit has failed and the loop is about to call download_file again.
C7_Witness ==
    /\ InLoop
    /\ last.branch \in TransportFailures
    /\ sinceReq = "request"

PresentIn(fs) == {p \in Paths : fs[p].exists}

\* C8 as stated: a completed run without network, after a completed run,
\* leaves the files as they were and reports every unit skipped.
C8_SecondRunAllSkipped ==
    (pc = "done" /\ runs >= 2 /\ prev = "done" /\ ~netUp) =>
        /\ files = snapshot
        /\ skipped = NumUnits /\ downloaded = 0 /\ failed = 0

\* C8 amended: a completed run without network, after any run, leaves the
\* files as they were, downloads nothing, reports as skipped the units
\* whose file the run before left and as failed all the others.
C8_SecondRunSkipsPresent ==
    (pc = "done" /\ runs >= 2 /\ ~netUp) =>
        /\ files = snapshot
        /\ downloaded = 0
        /\ skipped = Cardinality(PresentIn(snapshot))
        /\ failed = NumUnits - Cardinality(PresentIn(snapshot))
        /\ requests = {dt \in UnitDates : ~snapshot[Filename(dt)].exists}

\* A second run without network over what a completed first run left:
\* some units skipped, some failed again.
C8_Witness ==
    /\ pc = "done" /\ runs >= 2 /\ prev = "done" /\ ~netUp
    /\ skipped >= 1 /\ failed >= 1

(***************************************************************************)
(* Properties of the unit enumerator (under SpecDates).                    *)
(***************************************************************************)
\* The list a call has returned is the one of its interval.
ReturnedDatesAreTheInterval ==
    gd_pc = "returned" =>
        IF DateLE(gd_start, gd_end)
        THEN /\ Len(gd_dates) = Ordinal(gd_end) - Ordinal(gd_start) + 1
             /\ gd_dates[1] = gd_start
             /\ gd_dates[Len(gd_dates)] = gd_end
             /\ \A k \in 1 .. Len(gd_dates) : gd_dates[k] \in AllDates
             /\ \A k \in 1 .. Len(gd_dates) - 1 :
                    /\ Ordinal(gd_dates[k + 1]) = Ordinal(gd_dates[k]) + 1
                    /\ DateLE(gd_dates[k], gd_dates[k + 1])
                    /\ gd_dates[k] # gd_dates[k + 1]
        ELSE gd_dates = <<>>

\* C9: for every interval, generate_dates returns, and for start <= end
\* what it returns is (end - start).days + 1 dates, the first is start,
\* the last is end, consecutive ones are one day apart (so ascending,
\* without duplicates).
C9_DatesOfInterval ==
    /\ gd_pc # "raised"
    /\ ReturnedDatesAreTheInterval

\* What holds instead: every call whose interval ends before date.max
\* returns, and what a call returns is the list of its interval.
DatesOfIntervalBelowMax ==
    /\ (gd_pc = "raised" => gd_end = DateMax /\ DateLE(gd_start, gd_end))
    /\ ReturnedDatesAreTheInterval

\* The call for the last three days there are has raised after appending
\* the third.
C9_Witness ==
    /\ gd_pc = "raised"
    /\ gd_start = <<9999, 12, 29>>
    /\ gd_end = DateMax
    /\ gd_dates = <<<<9999, 12, 29>>, <<9999, 12, 30>>, DateMax>>

(***************************************************************************)
(* Properties of the load orchestrator (under SpecLoad).                   *)
(***************************************************************************)
\* C10: a table whose row count the gate read as greater than zero has not
\* had its loader called in this run, and its row count is what it was when
\* the run started, throughout the run and after it.
C10_PopulatedTableUntouched ==
    \A t \in Tables :
        seen[t] > 0 =>
            /\ t \notin invoked
            /\ rows[t] = rowsAtStart[t]
            /\ rows[t] = seen[t]

\* A finished run that skipped a populated table and loaded another one.
C10_Witness ==
    /\ lpc = "closed" /\ lresult = "ok"
    /\ \E t \in Tables : seen[t] > 0 /\ report[t] = seen[t]
    /\ \E t \in Tables : t \in invoked /\ rows[t] > rowsAtStart[t]

\* The table whose loader is running.
Loading(t) ==
    /\ lpc \in {"batch", "ais_next", "ais_copy", "ais_insert", "ais_drop"}
    /\ CurTable = t

\* C11: a batch handed to execute_values by load_mpa_data or
\* load_cetacean_data is committed whole or not at all: once the run is
\* over, the table holds none of the batch's rows or all of them.
C11_BatchAllOrNothing ==
    lpc = "closed" =>
        \A t \in {"marine_protected_areas", "cetacean_sightings"} :
            rows[t] \in {0, BatchRows}

\* A run that failed between two pages of a batch.
C11_Witness ==
    /\ lpc = "closed" /\ lresult = "failed" /\ lfailpc = "batch"
    /\ rows[CurTable] > 0
    /\ pending > 0

\* C12: the staging table exists only between its CREATE and its DROP
\* within one file's processing: there is none when a file's processing
\* starts, none between loaders, and none once the run is over, however it
\* ended.
C12_StagingNeverOutlivesFile ==
    /\ lpc \in {"idle", "closed", "check", "batch", "ais_next"} =>
            ~staging.exists
    /\ staging.exists => Loading("ais_positions")

\* A run that failed at the convert-insert, with the staging table filled,
\* and is over.
C12_Witness ==
    /\ lpc = "closed" /\ lresult = "failed"
    /\ lfailpc = "ais_insert"
    /\ ~staging.exists

\* The files of a directory in ascending path order, by rank.
AscendingFiles(S) ==
    [k \in 1 .. Cardinality(S) |->
        CHOOSE x \in S : Cardinality({y \in S : y < x}) = k - 1]

\* The rows of the first k files of the list.
RECURSIVE RowsOfFirst(_, _, _)
RowsOfFirst(dir, list, k) ==
    IF k = 0 THEN 0 ELSE dir[list[k]] + RowsOfFirst(dir, list, k - 1)

\* C13: load_ais_data takes the files one at a time in ascending path
\* order; the running total logged after the k-th file is the sum of the
\* rows of the first k files; and when the table was empty at the start and
\* the run ended without a failure, the final total is the table's row
\* count.
C13_RunningTotalIsPrefixSum ==
    LET asc == AscendingFiles(DOMAIN src.ais)
    IN  /\ Len(loadedFiles) <= Len(asc)
        /\ \A k \in 1 .. Len(loadedFiles) : loadedFiles[k] = asc[k]
        /\ Len(totals) <= Len(loadedFiles)
        /\ Len(loadedFiles) <= Len(totals) + 1
        /\ \A k \in 1 .. Len(totals) :
                totals[k] = RowsOfFirst(src.ais, asc, k)
        /\ total_loaded = RowsOfFirst(src.ais, asc, Len(totals))
        /\ (/\ lpc = "closed" /\ lresult = "ok"
            /\ "ais_positions" \in invoked
            /\ rowsAtStart["ais_positions"] = 0)
                => /\ Len(totals) = Len(asc)
                   /\ total_loaded = rows["ais_positions"]

\* A finished run that loaded every file of a directory whose files differ
\* in their number of rows.
C13_Witness ==
    /\ lpc = "closed" /\ lresult = "ok"
    /\ Len(totals) = NumAisFiles
    /\ NumAisFiles >= 2
    /\ src.ais[1] # src.ais[2]
    /\ totals[2] = src.ais[1] + src.ais[2]
    /\ rows["ais_positions"] = total_loaded

\* C14: the gate handles the tables in the order marine_protected_areas,
\* cetacean_sightings, ais_positions; and once a loader has failed, the
\* rows committed so far stay and nothing else of the run happens: no
\* later table is examined, no loader is called, no final count is logged.
C14_OrderAndFailFast ==
    /\ [](LET order == <<"marine_protected_areas", "cetacean_sightings",
                         "ais_positions">>
          IN  /\ \A j, k \in 1 .. 3 :
                    (j < k /\ seen[order[k]] >= 0) => seen[order[j]] >= 0
              /\ \A k \in 1 .. 3 :
                    order[k] \in invoked => seen[order[k]] >= 0)
    /\ [][(lresult' = "failed" /\ lruns' = lruns) =>
             /\ rows' = rows
             /\ lresult = "failed" => UNCHANGED <<invoked, seen, report>>]_vars

\* The first loader filled its table, the second one failed in its batch,
\* and the third was not called.
C14_Witness ==
    /\ lpc = "closed" /\ lresult = "failed" /\ lfailpc = "batch"
    /\ lt = 2
    /\ rowsAtStart["marine_protected_areas"] = 0
    /\ rows["marine_protected_areas"] = BatchRows
    /\ "ais_positions" \notin invoked
    /\ seen["ais_positions"] < 0

\* C20: a table that holds rows while its loader is not running keeps
\* exactly those rows and its loader is not started again: rows left by a
\* run that stopped in the middle of a table are never completed by a
\* later run.
C20_PartialLoadIsNeverCompleted ==
    [][\A t \in Tables :
          (rows[t] > 0 /\ ~Loading(t)) =>
              /\ rows'[t] = rows[t]
              /\ ~Loading(t)']_vars

\* A later run has skipped a table that an earlier run left with a part
\* of its batch, and has finished.
C20_Witness ==
    /\ lruns >= 2
    /\ lpc = "closed" /\ lresult = "ok"
    /\ seen["marine_protected_areas"] > 0
    /\ seen["marine_protected_areas"] < BatchRows
    /\ report["marine_protected_areas"] = seen["marine_protected_areas"]

(***************************************************************************)
(* Properties of the archive normalizer (under SpecMpa).                   *)
(***************************************************************************)
\* C15: a run of download_mpa_data that found the snapshot when it started
\* does nothing: it sends no request, the archive file is as it was (not
\* downloaded, not deleted), nothing is extracted, and the snapshot is as
\* it was.
C15_SnapshotSkipsEverything ==
    (mruns > 0 /\ outAtStart.exists) =>
        /\ mrequests = 0
        /\ mchunks = 0
        /\ zip_file = zipAtStart
        /\ output_file = outAtStart
        /\ mruns \notin tmpdirs
        /\ mpc \in {"gate", "ended"}
        /\ mresult \in {"running", "skipped", "interrupted"}

\* A run was skipped although an archive file was there to be used.
C15_Witness ==
    /\ mpc = "ended" /\ mresult = "skipped"
    /\ output_file.exists
    /\ zip_file.exists

\* C16: when the fetch of the archive failed, with an error status or a
\* transport error, the run is over with the error, no archive file is
\* left and no snapshot was written.
C16_FailedFetchLeavesNothing ==
    (mresult = "failed" /\ merr \in {"http", "transport"}) =>
        /\ mpc = "ended"
        /\ ~zip_file.exists
        /\ ~output_file.exists
        /\ gdf_us = <<>>

\* The stream broke after a chunk had been written.
C16_Witness ==
    /\ mresult = "failed" /\ merr = "transport"
    /\ mchunks > 0
    /\ ~zip_file.exists

\* C17: when the extracted archive held no .gdb directory, the run is over
\* with the error, there is no snapshot, complete or not, and the run's
\* temporary directory is gone.
C17_NoGdbNoSnapshot ==
    (mresult = "failed" /\ merr = "nogdb") =>
        /\ mpc = "ended"
        /\ ~output_file.exists
        /\ mruns \notin tmpdirs

\* A complete archive without a .gdb directory was extracted.
C17_Witness ==
    /\ mresult = "failed" /\ merr = "nogdb"
    /\ zip_file.exists /\ zip_file.size = ZipChunks
    /\ mrequests = 1

\* The bounds of row k of the frame in EPSG:4326, as filter_us_coast sees
\* them.
BoundsSeen(k) ==
    LET b == gdf[k].bounds
    IN  IF gdf_crs = "LON360" THEN <<b[1] - 360, b[2], b[3] - 360, b[4]>> ELSE b

\* C18: the filtered frame holds exactly the rows whose bounds satisfy
\* minx >= -130, maxx <= -65, miny >= 24 and maxy <= 49, each once, with
\* those bounds, in the order of the frame read.
C18_KeepsExactlyTheBoxesWithin ==
    mpc \in {"save", "saving", "unlink"} =>
        /\ \A k \in 1 .. Len(gdf) :
              (\E j \in 1 .. Len(gdf_us) : gdf_us[j].index = k)
                  <=> LET b == BoundsSeen(k)
                      IN  /\ b[1] >= 0 - 130
                          /\ b[3] <= 0 - 65
                          /\ b[2] >= 24
                          /\ b[4] <= 49
        /\ \A j \in 1 .. Len(gdf_us) :
              /\ gdf_us[j].index \in 1 .. Len(gdf)
              /\ gdf_us[j].bounds = BoundsSeen(gdf_us[j].index)
        /\ \A j1, j2 \in 1 .. Len(gdf_us) :
              j1 < j2 => gdf_us[j1].index < gdf_us[j2].index

\* A frame in another reference system, with a box inside the region
\* after one that straddles its eastern edge: the second row is kept, the
\* first is not.
C18_Witness ==
    /\ mpc = "save"
    /\ gdf_crs = "LON360"
    /\ Len(gdf) = 2
    /\ gdf[1].bounds = <<294, 30, 296, 32>>
    /\ gdf[2].bounds = <<290, 30, 292, 32>>
    /\ Len(gdf_us) = 1
    /\ gdf_us[1].index = 2

(***************************************************************************)
(* Properties of a field's way into its table (under SpecNull).            *)
(***************************************************************************)
\* C19: in every loader, a missing value of a nullable column is stored as
\* NULL: not as a text (None, NaN, the empty string, \N), not as a number.
C19_AbsentIsStoredAsNull ==
    (n_pc = "stored" /\ ~n_field.notnull /\ IsNa(n_src)) => n_val = SqlNull

\* A missing order of a sighting, held as NaN in the frame, is stored as
\* the text NaN.
C19_Witness ==
    /\ n_pc = "stored"
    /\ n_field.loader = "load_cetacean_data" /\ n_field.column = "order"
    /\ n_src = PyNaN
    /\ n_val = SqlText("NaN")

(***************************************************************************)
(* Further properties of the load orchestrator (under SpecLoad).           *)
(***************************************************************************)
\* C21: in no step, of a run that goes well, of one that fails or between
\* runs, does the row count of a table get smaller.
C21_RowCountNeverDecreases ==
    [][\A t \in Tables : rows'[t] >= rows[t]]_vars

\* A later run ended in a failure with the tables as full as, or fuller
\* than, the earlier runs left them: one whole, one with part of a batch.
C21_Witness ==
    /\ lruns >= 2
    /\ lpc = "closed" /\ lresult = "failed"
    /\ rowsAtStart["marine_protected_areas"] = BatchRows
    /\ rows["marine_protected_areas"] = BatchRows
    /\ rowsAtStart["cetacean_sightings"] = 0
    /\ rows["cetacean_sightings"] > 0
    /\ rows["cetacean_sightings"] < BatchRows

(***************************************************************************)
(* Further properties of the archive normalizer (under SpecMpa).           *)
(***************************************************************************)
\* The normalization has started: the run went past the gate of the
\* snapshot, it found an archive file or sent a request for one.
Fetched == zipAtStart.exists \/ mrequests > 0

\* A run that ends well leaves the complete snapshot and no archive.
GoodRunLeavesSnapshotOnly ==
    mresult = "ok" =>
        /\ output_file.exists /\ output_file.complete
        /\ output_file.features = gdf_us
        /\ ~zip_file.exists

\* A step that removes the archive file is the handler of a failed fetch,
\* or it finds the complete snapshot on disk and leaves it.
ArchiveRemovedOnlyBy ==
    (zip_file.exists /\ ~zip_file'.exists) =>
        \/ mresult' = "failed" /\ merr' \in {"http", "transport"}
        \/ /\ output_file.exists /\ output_file.complete
           /\ output_file' = output_file

\* C22: the archive is deleted only after the snapshot is written;
\* whenever a normalization has started and there is no archive file, its
\* fetch failed or the complete snapshot exists; and a run that ends well
\* leaves the snapshot and no archive.
C22_ArchiveDeletedOnlyAfterSnapshot ==
    /\ []GoodRunLeavesSnapshotOnly
    /\ []((mruns > 0 /\ Fetched /\ ~zip_file.exists) =>
            \/ mresult = "failed" /\ merr \in {"http", "transport"}
            \/ output_file.exists /\ output_file.complete)
    /\ [][ArchiveRemovedOnlyBy]_vars

\* C22 amended: the archive is deleted only after the snapshot is
\* written; whenever there is no archive file in a run that has had one on
\* disk (found at its start, or opened by its fetch), its fetch failed or
\* the complete snapshot exists; and a run that ends well leaves the
\* snapshot and no archive.
C22_ArchiveOnceThereDeletedOnlyAfterSnapshot ==
    /\ []GoodRunLeavesSnapshotOnly
    /\ []((mruns > 0 /\ zipSeen /\ ~zip_file.exists) =>
            \/ mresult = "failed" /\ merr \in {"http", "transport"}
            \/ output_file.exists /\ output_file.complete)
    /\ [][ArchiveRemovedOnlyBy]_vars

\* A run that fetched the archive itself ended well: the snapshot holds a
\* feature and the archive is gone.
C22_Witness ==
    /\ mpc = "ended" /\ mresult = "ok"
    /\ mrequests = 1 /\ mchunks = ZipChunks
    /\ output_file.complete
    /\ Len(output_file.features) >= 1
    /\ ~zip_file.exists

\* C25: a run that finds an archive file, complete or not, sends no
\* request and writes no chunk; an abort after the fetch (no .gdb
\* directory, a truncated archive, a geodatabase that cannot be read, a
\* snapshot that cannot be written, a stop in the middle of the download)
\* leaves the archive file as it is; so a run that starts with a truncated
\* archive and no snapshot ends with the same archive and no snapshot.
C25_ExistingArchiveIsNeverRefetched ==
    /\ []((mruns > 0 /\ zipAtStart.exists) =>
            /\ mrequests = 0
            /\ mchunks = 0
            /\ zip_file = zipAtStart \/ (mresult = "ok" /\ ~zip_file.exists))
    /\ []((/\ mruns > 0 /\ mpc = "ended"
           /\ zipAtStart.exists /\ zipAtStart.size < ZipChunks
           /\ ~outAtStart.exists) =>
            /\ zip_file = zipAtStart
            /\ ~output_file.exists
            /\ mresult \in {"failed", "interrupted"})
    /\ [][(mresult' \in {"failed", "interrupted"}
            /\ merr' \in {"nogdb", "badzip", "readfail", "savefail",
                          "interrupt"}
            /\ mpc # "ended") => zip_file' = zip_file]_vars

\* A run stopped in the middle of the download, and the next run took the
\* truncated archive for the archive and failed on it without a request.
C25_Witness ==
    /\ mruns >= 2
    /\ mpc = "ended" /\ mresult = "failed" /\ merr = "badzip"
    /\ zipAtStart.exists /\ zipAtStart.size < ZipChunks
    /\ mrequests = 0
    /\ zip_file = zipAtStart

(***************************************************************************)
(* Missing sources and the AIS files (under SpecLoad).                     *)
(***************************************************************************)
\* The loader of the table was called in this run and found no source.
FoundNoSource(t) == t \in invoked /\ ~SourcePresent(src, t)

\* C23: a loader that finds its source missing inserts nothing and
\* returns: the run goes on with the next table; the table is empty
\* afterwards; and whenever the gate comes to an empty table, in this run
\* or a later one, it calls the loader.
C23_MissingSourceIsSkippedNotFatal ==
    /\ [](\A t \in Tables : FoundNoSource(t) => rows[t] = 0)
    /\ [][\A t \in Tables :
            (t \notin invoked /\ FoundNoSource(t)') =>
                /\ rows' = rows
                /\ lt' = lt + 1
                /\ lpc' = "check"
                /\ lresult' = "running"]_vars
    /\ [][(/\ lpc = "check" /\ lt <= 3
           /\ rows[TABLES[lt]] = 0
           /\ seen'[TABLES[lt]] # seen[TABLES[lt]]
           /\ lruns' = lruns) => TABLES[lt] \in invoked']_vars

\* An earlier run found no MPA file and went on to load the sightings; a
\* later run found the MPA table still empty and loaded it.
C23_Witness ==
    /\ lruns >= 2
    /\ rowsAtStart["marine_protected_areas"] = 0
    /\ rowsAtStart["cetacean_sightings"] = BatchRows
    /\ rows["marine_protected_areas"] = BatchRows
    /\ src.mpa

\* C24: from the call of load_ais_data on, whatever statement fails,
\* ais_positions holds the rows of the first files of the sorted list and
\* no others: as many files as had their convert-insert executed, each
\* with all its rows.
C24_AisRowsArePrefixOfFiles ==
    "ais_positions" \in invoked =>
        LET asc == AscendingFiles(DOMAIN src.ais)
            n == Len(loadedFiles)
        IN  /\ rowsAtStart["ais_positions"] = 0
            /\ n <= Len(asc)
            /\ loadedFiles = [k \in 1 .. n |-> asc[k]]
            /\ rows["ais_positions"] = RowsOfFirst(src.ais, asc, n)

\* The run failed at the COPY or the convert-insert of the second file:
\* the table holds the first file's rows.
C24_Witness ==
    /\ lpc = "closed" /\ lresult = "failed"
    /\ lfailpc \in {"ais_copy", "ais_insert"}
    /\ aidx = 2
    /\ Len(loadedFiles) = 1
    /\ rows["ais_positions"] = src.ais[parquet_files[1]]
    /\ rows["ais_positions"] > 0

(***************************************************************************)
(* Convergence of the fetch coordinator (under SpecConverge).              *)
(***************************************************************************)
\* Every unit's file is there, whole.
AllPresent(fs) ==
    \A p \in Paths : fs[p].exists /\ fs[p].size = RemoteChunks

\* The file of the unit is whole and download_file is not writing it.
Downloaded(d) ==
    /\ files[Filename(d)].exists
    /\ files[Filename(d)].size = RemoteChunks
    /\ ~(pc = "stream" /\ CurDate = d)

\* C26: with runs repeated and not stopped on their way, and a network
\* that lets every request succeed at some time, every unit's file is
\* there from some time on; a run started after that sends no request and
\* counts every unit as skipped; and the file of a unit once downloaded is
\* never written, removed or requested again.
C26_RunsConverge ==
    /\ <>[]AllPresent(files)
    /\ []((runs > 0 /\ AllPresent(snapshot)) =>
            /\ requests = {}
            /\ downloaded = 0 /\ failed = 0
            /\ pc = "done" => skipped = Len(dates))
    /\ [][\A d \in UnitDates :
            Downloaded(d) =>
                /\ files'[Filename(d)] = files[Filename(d)]
                /\ d \in requests' => d \in requests]_vars

\* A run that started with every file there has ended: no request, every
\* unit skipped.
C26_Witness ==
    /\ pc = "done"
    /\ AllPresent(snapshot)
    /\ requests = {}
    /\ skipped = NumUnits
    /\ runs >= 2

=============================================================================
